---- MODULE Spec2Model ----
(***************************************************************************)
(* NotifyCond (src/notifycond/notifycond.go): a dispatcher goroutine fans  *)
(* the notifications of one pq.Listener out to per-topic condition         *)
(* channels of capacity 1.  The model follows the code statement by        *)
(* statement.  A step runs a goroutine from one point where it can block   *)
(* (s.lock held by another goroutine, a channel send or receive, a round   *)
(* trip to the listener) to the next one.                                  *)
(***************************************************************************)
EXTENDS Naturals, Integers, Sequences, FiniteSets, TLC

\* ---------------------------------------------------------------- bounds
\* Number of external events in one behaviour: API calls begun, events of
\* the source (notifications and nil events sent on listener.Notify, the
\* end of the sequence) and keepalive probes issued.
MaxEvents == 4

\* Goroutines of the application calling the API, the notification
\* channels (topics) they use and the ping intervals they set.
Procs == {"p1", "p2"}
Topics == {"a", "b"}
Durations == {"d1", "d2"}

\* ------------------------------------------------------------ the values
\* make(chan *pq.Notification, 1)
CondChanCap == 1
\* make(chan time.Duration, 1)
PingIntervalChanCap == 1

\* The nil *pq.Notification (the resync marker).
NilN == [Channel |-> "nil", Extra |-> 0]
\* The i-th notification of the source, for notification channel t.
Notification(t, i) == [Channel |-> t, Extra |-> i]

\* The close of listener.Notify, as an entry of the history of the source.
EndOfNotify == [Channel |-> "closed", Extra |-> 0]

NoProc == "none"
NoInterval == "nil"
NilChan == "nil"

\* Results of the API calls.
errClosed == "errClosed"
ErrChannelAlreadyOpen == "ErrChannelAlreadyOpen"
ErrChannelNotOpen == "ErrChannelNotOpen"
srcErr == "srcErr"
ok == "nil"
NoRet == "-"

VARIABLES
    \* NotifyCond
    lock,                     \* s.lock: the goroutine holding it across steps, or NoProc
    closed,                   \* s.closed
    channels,                 \* s.channels: topic -> condition channel (an index of conds)
    newPingIntervalChannel,   \* buffer of s.newPingIntervalChannel
    broadcastOnPingTimeout,   \* s.broadcastOnPingTimeout
    wgDone,                   \* s.closeWaitGroup has reached zero
    \* the heap of condition channels: conds[c] = [buf, closed]
    conds,
    \* API callers: position, argument, local ch, local err, last result
    pc, arg, ch, err, ret,
    \* mainDispatcherLoop: position, received n, pingInterval, pingTimer
    loopPc, loopN, pingInterval, timerArmed, timerC,
    \* the listener: its Notify channel, whether the sequence ended, Close called
    Notify, notifyClosed, listenerClosed,
    pings,                    \* probes issued by pingTimeout
    panicked,                 \* "" or the panic that aborted the program
    \* history
    emitted,                  \* every event the source has sent on Notify, in order
    reads,                    \* reads[c]: the notifications received from channel c
    arrived,                  \* channels with a notification processed since the last receive
    handed,                   \* channels returned by Listen to the consumer
    owner,                    \* owner[c]: the topic channel c was made for
    lastSet,                  \* the interval of the last SetPingInterval call that returned
    raced,                    \* the kinds of calls that have overlapped on one topic
    calls                     \* number of API calls begun

apiVars == <<lock, closed, channels, newPingIntervalChannel, broadcastOnPingTimeout, wgDone>>
callVars == <<pc, arg, ch, err, ret>>
loopVars == <<loopPc, loopN, pingInterval, timerArmed, timerC>>
srcVars == <<Notify, notifyClosed, listenerClosed, pings>>
histVars == <<emitted, reads, arrived, handed, owner, lastSet, raced>>
vars == <<apiVars, conds, callVars, loopVars, srcVars, panicked, histVars, calls>>

\* The external events so far.
Events == calls + Len(emitted) + pings

\* s.closeChannel: NewNotifyCond's composite literal does not set it and no
\* statement assigns it, so it keeps its zero value, the nil channel.
closeChannel == NilChan

\* ------------------------------------------------------- pure operations
Mapped(t) == t \in DOMAIN channels

\* s.channels[channel] = c
MapInsert(m, t, c) == [x \in DOMAIN m \cup {t} |-> IF x = t THEN c ELSE m[x]]
\* delete(s.channels, channel)
MapDelete(m, t) == [x \in DOMAIN m \ {t} |-> m[x]]

\* make(chan *pq.Notification, 1)
NewCond == [buf |-> <<>>, closed |-> FALSE]

\* A faulty send: a pending value is replaced by the new one.
TrySendOverwrite(cs, c, n) ==
    IF Len(cs[c].buf) < CondChanCap
    THEN [cs EXCEPT ![c].buf = Append(@, n)]
    ELSE [cs EXCEPT ![c].buf = <<n>>]

\* select { case ch <- n: default: } on conds cs: the value is queued when
\* the buffer has room and dropped otherwise.
TrySend(cs, c, n) ==
    IF Len(cs[c].buf) < CondChanCap
    THEN [cs EXCEPT ![c].buf = Append(@, n)]
    ELSE cs

\* close(ch)
CloseCond(cs, c) == [cs EXCEPT ![c].closed = TRUE]

\* A faulty notify: the test of ok is inverted, so it returns when the
\* channel is in the map.
notifyInverted(cs, channel, n) ==
    IF Mapped(channel)
    THEN cs
    ELSE cs   \* a send on the nil channel: the default case

\* A faulty notify: the notification is sent to every channel in the map.
RECURSIVE notifyEvery(_, _, _)
notifyEvery(cs, ts, n) ==
    IF ts = {}
    THEN cs
    ELSE LET t == CHOOSE x \in ts : TRUE
         IN notifyEvery(TrySend(cs, channels[t], n), ts \ {t}, n)

notifyAll(cs, channel, n) == notifyEvery(cs, DOMAIN channels, n)

\* A faulty notify: a notification for a channel that is not in the map
\* goes to a channel that is.
notifyFallback(cs, channel, n) ==
    IF Mapped(channel)
    THEN TrySend(cs, channels[channel], n)
    ELSE IF DOMAIN channels = {}
    THEN cs
    ELSE TrySend(cs, channels[CHOOSE t \in DOMAIN channels : TRUE], n)

\* notify(channel, n) with s.lock held, on conds cs.
notify(cs, channel, n) ==
    IF ~Mapped(channel)
    THEN cs
    ELSE TrySend(cs, channels[channel], n)

\* for channel := range s.channels { s.notify(channel, nil) }
RECURSIVE broadcastOver(_, _)
broadcastOver(cs, ts) ==
    IF ts = {}
    THEN cs
    ELSE LET t == CHOOSE x \in ts : TRUE
         IN broadcastOver(notify(cs, t, NilN), ts \ {t})

\* A faulty broadcast: it stops after the first channel.
broadcastOne(cs) ==
    IF DOMAIN channels = {}
    THEN cs
    ELSE notify(cs, CHOOSE t \in DOMAIN channels : TRUE, NilN)

broadcast(cs) == broadcastOver(cs, DOMAIN channels)

\* A send on a closed channel panics, even in a select with a default.
notifyPanics(channel) == Mapped(channel) /\ conds[channels[channel]].closed
broadcastPanics == \E t \in DOMAIN channels : conds[channels[t]].closed

\* for _, ch := range s.channels { close(ch) }
RECURSIVE closeAll(_, _)
closeAll(cs, ts) ==
    IF ts = {}
    THEN cs
    ELSE LET t == CHOOSE x \in ts : TRUE
         IN closeAll(CloseCond(cs, channels[t]), ts \ {t})

\* ------------------------------------------------------------------ Init
\* NewNotifyCond: empty map, newPingIntervalChannel made with capacity 1,
\* the wait group at 1, the loop goroutine started.
Init ==
    /\ lock = NoProc
    /\ closed = FALSE
    /\ channels = <<>>
    /\ newPingIntervalChannel = <<>>
    /\ broadcastOnPingTimeout = FALSE
    /\ wgDone = FALSE
    /\ conds = <<>>
    /\ pc = [p \in Procs |-> "idle"]
    /\ arg = [p \in Procs |-> ""]
    /\ ch = [p \in Procs |-> 0]
    /\ err = [p \in Procs |-> ok]
    /\ ret = [p \in Procs |-> NoRet]
    /\ loopPc = "start"
    /\ loopN = NilN
    /\ pingInterval = NoInterval
    /\ timerArmed = FALSE
    /\ timerC = FALSE
    /\ Notify = <<>>
    /\ notifyClosed = FALSE
    /\ listenerClosed = FALSE
    /\ pings = 0
    /\ panicked = ""
    /\ emitted = <<>>
    /\ reads = <<>>
    /\ arrived = {}
    /\ handed = {}
    /\ owner = <<>>
    /\ lastSet = NoInterval
    /\ raced = {}
    /\ calls = 0

\* --------------------------------------------------------- the API calls
\* A call returns r to its caller; its locals are gone.
Return(p, r) ==
    /\ pc' = [pc EXCEPT ![p] = "idle"]
    /\ ret' = [ret EXCEPT ![p] = r]
    /\ arg' = [arg EXCEPT ![p] = ""]
    /\ ch' = [ch EXCEPT ![p] = 0]
    /\ err' = [err EXCEPT ![p] = ok]

\* A call with argument a stops at position at.
Goto(p, at, a) ==
    /\ pc' = [pc EXCEPT ![p] = at]
    /\ arg' = [arg EXCEPT ![p] = a]
    /\ ret' = [ret EXCEPT ![p] = NoRet]

ListenPcs == {"Listen_lock", "Listen_src", "Listen_remove"}
UnlistenPcs == {"Unlisten_lock", "Unlisten_src", "Unlisten_remove", "Unlisten_close"}
ClosePcs == {"Close_lock", "Close_send", "Close_unlock", "Close_wait", "Close_listener"}

\* A Listen or Unlisten call on topic t is in progress.
InCallOn(t) == \E q \in Procs : pc[q] \in ListenPcs \cup UnlistenPcs /\ arg[q] = t

\* Caller p is at the entry of a call (one more call begins) or waits for
\* s.lock at position at with argument a.
Entering(p, at, a) ==
    IF pc[p] = "idle"
    THEN /\ Events < MaxEvents
         /\ calls' = calls + 1
    ELSE /\ pc[p] = at
         /\ arg[p] = a
         /\ UNCHANGED calls

\* The kinds of overlap on topic t that begin when caller p enters a call
\* of kind k ("L" for Listen, "U" for Unlisten): one for every kind of call
\* on t in progress in another goroutine (the doc comments of Listen and
\* Unlisten name the overlap of a Listen with an Unlisten as not safe).
Overlaps(p, t, k) ==
    IF pc[p] # "idle"
    THEN {}
    ELSE {IF k = "L" THEN "LL" ELSE "LU" :
            q \in {q \in Procs : pc[q] \in ListenPcs /\ arg[q] = t}}
         \cup {IF k = "L" THEN "LU" ELSE "UU" :
            q \in {q \in Procs : pc[q] \in UnlistenPcs /\ arg[q] = t}}

\* A faulty Listen: the map is not looked up, an active channel is replaced.
ListenLockedNoCheck(p, t) ==
    IF closed
    THEN /\ Return(p, errClosed)
         /\ UNCHANGED <<channels, conds, owner, reads>>
    ELSE LET c == Len(conds) + 1
         IN /\ conds' = Append(conds, NewCond)
            /\ owner' = Append(owner, t)
            /\ reads' = Append(reads, <<>>)
            /\ channels' = MapInsert(channels, t, c)
            /\ ch' = [ch EXCEPT ![p] = c]
            /\ Goto(p, "Listen_src", t)
            /\ UNCHANGED err

\* Listen, lines 128-140, with s.lock: refuse a closed dispatcher and an
\* active channel, else make the condition channel and record it.
ListenLocked(p, t) ==
    IF closed
    THEN /\ Return(p, errClosed)
         /\ UNCHANGED <<channels, conds, owner, reads>>
    ELSE IF Mapped(t)
    THEN /\ Return(p, ErrChannelAlreadyOpen)
         /\ UNCHANGED <<channels, conds, owner, reads>>
    ELSE LET c == Len(conds) + 1
         IN /\ conds' = Append(conds, NewCond)
            /\ owner' = Append(owner, t)
            /\ reads' = Append(reads, <<>>)
            /\ channels' = MapInsert(channels, t, c)
            /\ ch' = [ch EXCEPT ![p] = c]
            /\ Goto(p, "Listen_src", t)
            /\ UNCHANGED err

\* A faulty Listen: s.lock is kept during the round trip to the listener.
ListenCallHoldsLock(p, t) ==
    /\ Entering(p, "Listen_lock", t)
    /\ IF lock # NoProc
       THEN /\ Goto(p, "Listen_lock", t)
            /\ UNCHANGED <<channels, conds, owner, reads, ch, err, lock>>
       ELSE /\ ListenLocked(p, t)
            /\ lock' = IF ~closed /\ ~Mapped(t) THEN p ELSE lock
    /\ raced' = raced \cup Overlaps(p, t, "L")
    /\ UNCHANGED <<closed, newPingIntervalChannel, broadcastOnPingTimeout, wgDone>>
    /\ UNCHANGED <<loopVars, srcVars, panicked, emitted, arrived, handed, lastSet>>

\* Listen(t) from its entry, or from its wait for s.lock, to the round trip
\* s.listener.Listen(channel) of line 142.
ListenCall(p, t) ==
    /\ Entering(p, "Listen_lock", t)
    /\ IF lock # NoProc
       THEN /\ Goto(p, "Listen_lock", t)
            /\ UNCHANGED <<channels, conds, owner, reads, ch, err>>
       ELSE ListenLocked(p, t)
    /\ raced' = raced \cup Overlaps(p, t, "L")
    /\ UNCHANGED <<lock, closed, newPingIntervalChannel, broadcastOnPingTimeout, wgDone>>
    /\ UNCHANGED <<loopVars, srcVars, panicked, emitted, arrived, handed, lastSet>>

\* A faulty removeChannel: the comparison with the mapped channel is
\* inverted.
removeChannelPanicInverted(p) ==
    IF ~Mapped(arg[p])
    THEN "channel not part of NotifyCond.channels"
    ELSE IF channels[arg[p]] = ch[p]
    THEN "unexpected channel"
    ELSE ""

\* removeChannel(channel, ch), lines 104-110: the panic it raises for
\* caller p, "" when the map holds ch for the channel.
removeChannelPanic(p) ==
    IF ~Mapped(arg[p])
    THEN "channel not part of NotifyCond.channels"
    ELSE IF channels[arg[p]] # ch[p]
    THEN "unexpected channel"
    ELSE ""

\* A faulty rollback: the error is returned and the mapping left behind.
ListenRemoveKeepsMapping(p, e) ==
    /\ Return(p, e)
    /\ UNCHANGED <<channels, panicked>>

\* Listen, lines 144-145, with s.lock had: removeChannel, return the error.
ListenRemove(p, e) ==
    IF removeChannelPanic(p) # ""
    THEN /\ panicked' = removeChannelPanic(p)
         /\ UNCHANGED <<channels, callVars>>
    ELSE /\ channels' = MapDelete(channels, arg[p])
         /\ Return(p, e)
         /\ UNCHANGED panicked

\* Listen, lines 142-148: s.listener.Listen(channel) returns e; on an error
\* the mapping is rolled back (once s.lock is had) and the error returned.
ListenReturn(p) ==
    /\ pc[p] \in {"Listen_src", "Listen_remove"}
    /\ \E e \in {ok, srcErr} :
         /\ pc[p] = "Listen_remove" => e = err[p]
         /\ IF e = ok
            THEN /\ Return(p, ok)
                 /\ handed' = handed \cup {ch[p]}
                 /\ UNCHANGED <<channels, panicked>>
            ELSE IF lock # NoProc
            THEN /\ Goto(p, "Listen_remove", arg[p])
                 /\ err' = [err EXCEPT ![p] = e]
                 /\ UNCHANGED <<ch, handed, channels, panicked>>
            ELSE /\ ListenRemove(p, e)
                 /\ UNCHANGED handed
    /\ UNCHANGED <<lock, closed, newPingIntervalChannel, broadcastOnPingTimeout, wgDone>>
    /\ UNCHANGED <<conds, loopVars, srcVars, emitted, reads, arrived, owner, lastSet, raced, calls>>

\* A faulty Unlisten: a channel that is not active is reported as removed.
UnlistenLockedReturnsNil(p, t) ==
    IF closed
    THEN Return(p, errClosed)
    ELSE IF ~Mapped(t)
    THEN Return(p, ok)
    ELSE /\ ch' = [ch EXCEPT ![p] = channels[t]]
         /\ Goto(p, "Unlisten_src", t)
         /\ UNCHANGED err

\* Unlisten, lines 164-174, with s.lock.
UnlistenLocked(p, t) ==
    IF closed
    THEN Return(p, errClosed)
    ELSE IF ~Mapped(t)
    THEN Return(p, ErrChannelNotOpen)
    ELSE /\ ch' = [ch EXCEPT ![p] = channels[t]]
         /\ Goto(p, "Unlisten_src", t)
         /\ UNCHANGED err

\* Unlisten(t) from its entry, or from its wait for s.lock, to the round
\* trip s.listener.Unlisten(channel) of line 176.
UnlistenCall(p, t) ==
    /\ Entering(p, "Unlisten_lock", t)
    /\ IF lock # NoProc
       THEN /\ Goto(p, "Unlisten_lock", t)
            /\ UNCHANGED <<ch, err>>
       ELSE UnlistenLocked(p, t)
    /\ raced' = raced \cup Overlaps(p, t, "U")
    /\ UNCHANGED <<apiVars, conds, loopVars, srcVars, panicked>>
    /\ UNCHANGED <<emitted, reads, arrived, handed, owner, lastSet>>

\* A faulty Unlisten: the mapping is left behind.
UnlistenRemoveKeepsMapping(p) ==
    /\ Goto(p, "Unlisten_close", arg[p])
    /\ UNCHANGED <<channels, ch, err, panicked>>

\* Unlisten, line 181, with s.lock had: removeChannel; s.lock is released
\* before close(ch).
UnlistenRemove(p) ==
    IF removeChannelPanic(p) # ""
    THEN /\ panicked' = removeChannelPanic(p)
         /\ UNCHANGED <<channels, callVars>>
    ELSE /\ channels' = MapDelete(channels, arg[p])
         /\ Goto(p, "Unlisten_close", arg[p])
         /\ UNCHANGED <<ch, err, panicked>>

\* A faulty Unlisten: the mapping is removed and the channel closed before
\* the error of s.listener.Unlisten is looked at.
UnlistenReturnRemovesFirst(p) ==
    /\ pc[p] = "Unlisten_src"
    /\ lock = NoProc
    /\ removeChannelPanic(p) = ""
    /\ ~conds[ch[p]].closed
    /\ channels' = MapDelete(channels, arg[p])
    /\ conds' = CloseCond(conds, ch[p])
    /\ \E e \in {ok, srcErr} : Return(p, e)
    /\ UNCHANGED <<lock, closed, newPingIntervalChannel, broadcastOnPingTimeout, wgDone>>
    /\ UNCHANGED <<loopVars, srcVars, histVars, calls, panicked>>

\* A faulty Unlisten: close(ch) comes before removeChannel.
UnlistenReturnClosesFirst(p) ==
    /\ pc[p] \in {"Unlisten_src", "Unlisten_remove"}
    /\ IF pc[p] = "Unlisten_src"
       THEN \E e \in {ok, srcErr} :
              IF e # ok
              THEN /\ Return(p, e)
                   /\ UNCHANGED <<channels, conds, panicked>>
              ELSE /\ ~conds[ch[p]].closed
                   /\ conds' = CloseCond(conds, ch[p])
                   /\ Goto(p, "Unlisten_remove", arg[p])
                   /\ UNCHANGED <<ch, err, channels, panicked>>
       ELSE /\ lock = NoProc
            /\ removeChannelPanic(p) = ""
            /\ channels' = MapDelete(channels, arg[p])
            /\ Return(p, ok)
            /\ UNCHANGED <<conds, panicked>>
    /\ UNCHANGED <<lock, closed, newPingIntervalChannel, broadcastOnPingTimeout, wgDone>>
    /\ UNCHANGED <<loopVars, srcVars, histVars, calls>>

\* Unlisten, lines 176-181: s.listener.Unlisten(channel) returns e; an
\* error is returned as it is, else the mapping is removed (once s.lock is
\* had).
UnlistenReturn(p) ==
    /\ pc[p] \in {"Unlisten_src", "Unlisten_remove"}
    /\ \E e \in {ok, srcErr} :
         /\ pc[p] = "Unlisten_remove" => e = ok
         /\ IF e # ok
            THEN /\ Return(p, e)
                 /\ UNCHANGED <<channels, panicked>>
            ELSE IF lock # NoProc
            THEN /\ Goto(p, "Unlisten_remove", arg[p])
                 /\ UNCHANGED <<ch, err, channels, panicked>>
            ELSE UnlistenRemove(p)
    /\ UNCHANGED <<lock, closed, newPingIntervalChannel, broadcastOnPingTimeout, wgDone>>
    /\ UNCHANGED <<conds, loopVars, srcVars, histVars, calls>>

\* A faulty Unlisten: it returns nil and leaves the condition channel open.
UnlistenCloseSkips(p) ==
    /\ pc[p] = "Unlisten_close"
    /\ Return(p, ok)
    /\ UNCHANGED <<apiVars, conds, loopVars, srcVars, panicked, histVars, calls>>

\* Unlisten, lines 182-184, without s.lock: close(ch), return nil; closing
\* a closed channel panics.
UnlistenClose(p) ==
    /\ pc[p] = "Unlisten_close"
    /\ IF conds[ch[p]].closed
       THEN /\ panicked' = "close of closed channel"
            /\ UNCHANGED <<conds, callVars>>
       ELSE /\ conds' = CloseCond(conds, ch[p])
            /\ Return(p, ok)
            /\ UNCHANGED panicked
    /\ UNCHANGED <<apiVars, loopVars, srcVars, histVars, calls>>

\* Close, lines 223-236, by position.  The send on s.closeChannel is made
\* with s.lock held; it completes only when the loop receives (see
\* SelectCase), and a send on a nil channel never completes.
Close(p) ==
    /\ CASE pc[p] \in {"idle", "Close_lock"} ->
              /\ Entering(p, "Close_lock", "")
              /\ IF lock # NoProc
                 THEN /\ Goto(p, "Close_lock", "")
                      /\ UNCHANGED <<lock, closed, ch, err>>
                 ELSE IF closed
                 THEN /\ Return(p, errClosed)
                      /\ UNCHANGED <<lock, closed>>
                 ELSE /\ closed' = TRUE
                      /\ lock' = p
                      /\ Goto(p, "Close_send", "")
                      /\ UNCHANGED <<ch, err>>
              /\ UNCHANGED listenerClosed
         [] pc[p] = "Close_unlock" ->
              /\ lock' = NoProc
              /\ Goto(p, "Close_wait", "")
              /\ UNCHANGED <<closed, ch, err, listenerClosed, calls>>
         [] pc[p] = "Close_wait" ->
              /\ wgDone
              /\ Goto(p, "Close_listener", "")
              /\ UNCHANGED <<lock, closed, ch, err, listenerClosed, calls>>
         [] pc[p] = "Close_listener" ->
              /\ listenerClosed' = TRUE
              /\ \E e \in {ok, srcErr} : Return(p, e)
              /\ UNCHANGED <<lock, closed, calls>>
         [] OTHER -> FALSE
    /\ UNCHANGED <<channels, newPingIntervalChannel, broadcastOnPingTimeout, wgDone>>
    /\ UNCHANGED <<conds, loopVars, Notify, notifyClosed, pings, panicked, histVars>>

\* A faulty SetPingInterval: a pending request is replaced, the caller
\* never waits.
SetPingIntervalOverwrite(p, d) ==
    /\ Entering(p, "SetPingInterval_send", d)
    /\ newPingIntervalChannel' = <<d>>
    /\ lastSet' = d
    /\ Return(p, ok)
    /\ UNCHANGED <<lock, closed, channels, broadcastOnPingTimeout, wgDone>>
    /\ UNCHANGED <<conds, loopVars, srcVars, panicked>>
    /\ UNCHANGED <<emitted, reads, arrived, handed, owner, raced>>

\* SetPingInterval(d), line 195: a blocking send on the buffered channel,
\* from the entry of the call or from its wait for room in the buffer.
SetPingInterval(p, d) ==
    /\ Entering(p, "SetPingInterval_send", d)
    /\ IF Len(newPingIntervalChannel) < PingIntervalChanCap
       THEN /\ newPingIntervalChannel' = Append(newPingIntervalChannel, d)
            /\ lastSet' = d
            /\ Return(p, ok)
       ELSE /\ Goto(p, "SetPingInterval_send", d)
            /\ UNCHANGED <<newPingIntervalChannel, lastSet, ch, err>>
    /\ UNCHANGED <<lock, closed, channels, broadcastOnPingTimeout, wgDone>>
    /\ UNCHANGED <<conds, loopVars, srcVars, panicked>>
    /\ UNCHANGED <<emitted, reads, arrived, handed, owner, raced>>

\* SetBroadcastOnPingTimeout(b), lines 200-204, from the entry of the call
\* or from its wait for s.lock: one critical section.
SetBroadcastOnPingTimeout(p, b) ==
    /\ Entering(p, "SetBroadcastOnPingTimeout_lock", IF b THEN "true" ELSE "false")
    /\ IF lock # NoProc
       THEN /\ Goto(p, "SetBroadcastOnPingTimeout_lock", IF b THEN "true" ELSE "false")
            /\ UNCHANGED <<broadcastOnPingTimeout, ch, err>>
       ELSE /\ broadcastOnPingTimeout' = b
            /\ Return(p, ok)
    /\ UNCHANGED <<lock, closed, channels, newPingIntervalChannel, wgDone>>
    /\ UNCHANGED <<conds, loopVars, srcVars, panicked, histVars>>

\* ------------------------------------------------- mainDispatcherLoop
\* Lines 279-283 at the top of an iteration with interval pi: Reset re-arms
\* the timer, Stop disarms it; neither takes a value out of pingTimer.C.
\* The loop then waits in the select.
LoopTop(pi) ==
    /\ timerArmed' = (pi # NoInterval)
    /\ loopPc' = "select"

\* The runtime fires the armed timer: a value is put in pingTimer.C.
TimerFire ==
    /\ timerArmed
    /\ timerArmed' = FALSE
    /\ timerC' = TRUE
    /\ UNCHANGED <<apiVars, conds, callVars, loopPc, loopN, pingInterval, srcVars>>
    /\ UNCHANGED <<panicked, histVars, calls>>

\* The cases of the select (lines 285-304) that can proceed.  A receive
\* from the nil closeChannel never can.
ReadyCases ==
    (IF Notify # <<>> \/ notifyClosed THEN {"Notify"} ELSE {})
    \cup (IF closeChannel # NilChan /\ (\E p \in Procs : pc[p] = "Close_send")
          THEN {"closeChannel"} ELSE {})
    \cup (IF timerC /\ Events < MaxEvents THEN {"pingTimer"} ELSE {})
    \cup (IF newPingIntervalChannel # <<>> THEN {"newPingInterval"} ELSE {})

\* The value a receive from s.listener.Notify yields: the oldest queued
\* event, or nil once the channel is closed and drained.
NotifyRecv == IF Notify # <<>> THEN Head(Notify) ELSE NilN

\* Lines 287-293, with s.lock had: broadcast a nil event, notify a
\* concrete one; then the next iteration.
LoopNotify(n) ==
    /\ IF n = NilN
       THEN IF broadcastPanics
            THEN /\ panicked' = "send on closed channel"
                 /\ UNCHANGED <<conds, arrived>>
            ELSE /\ conds' = broadcast(conds)
                 /\ UNCHANGED <<panicked, arrived>>
       ELSE IF notifyPanics(n.Channel)
            THEN /\ panicked' = "send on closed channel"
                 /\ UNCHANGED <<conds, arrived>>
            ELSE /\ conds' = notify(conds, n.Channel, n)
                 /\ arrived' = IF Mapped(n.Channel)
                               THEN arrived \cup {channels[n.Channel]}
                               ELSE arrived
                 /\ UNCHANGED panicked
    /\ loopN' = NilN
    /\ LoopTop(pingInterval)

\* A faulty pingTimeout: it broadcasts whatever broadcastOnPingTimeout is.
pingTimeoutAlways ==
    /\ IF broadcastPanics
       THEN /\ panicked' = "send on closed channel"
            /\ UNCHANGED conds
       ELSE /\ conds' = broadcast(conds)
            /\ UNCHANGED panicked
    /\ LoopTop(pingInterval)

\* pingTimeout, lines 213-217, with s.lock had; then the next iteration.
pingTimeout ==
    /\ IF broadcastOnPingTimeout
       THEN IF broadcastPanics
            THEN /\ panicked' = "send on closed channel"
                 /\ UNCHANGED conds
            ELSE /\ conds' = broadcast(conds)
                 /\ UNCHANGED panicked
       ELSE UNCHANGED <<conds, panicked>>
    /\ LoopTop(pingInterval)

\* shutdown, lines 262-272, with s.lock had; then the loop returns.
shutdown ==
    /\ IF \E t \in DOMAIN channels : conds[channels[t]].closed
       THEN /\ panicked' = "close of closed channel"
            /\ UNCHANGED <<conds, wgDone>>
       ELSE /\ conds' = closeAll(conds, DOMAIN channels)
            /\ wgDone' = TRUE
            /\ UNCHANGED panicked
    /\ loopPc' = "exited"

\* Case c of the select is taken and run to the next point where the loop
\* can block: s.lock held by another goroutine, or the next select.
\* pingTimeout starts the probe goroutine (lines 207-209) before it locks.
SelectCase(c) ==
    CASE c = "Notify" ->
           /\ Notify' = IF Notify # <<>> THEN Tail(Notify) ELSE Notify
           /\ IF lock # NoProc
              THEN /\ loopN' = NotifyRecv
                   /\ loopPc' = "notify_lock"
                   /\ UNCHANGED <<conds, arrived, panicked, timerArmed>>
              ELSE LoopNotify(NotifyRecv)
           /\ UNCHANGED <<pc, ret, arg, timerC, pings, newPingIntervalChannel, pingInterval, wgDone>>
      [] c = "closeChannel" ->
           /\ \E p \in Procs :
                /\ pc[p] = "Close_send"
                /\ Goto(p, "Close_unlock", "")
           /\ loopPc' = "shutdown_lock"
           /\ UNCHANGED <<loopN, Notify, timerC, timerArmed, pings, newPingIntervalChannel>>
           /\ UNCHANGED <<pingInterval, conds, arrived, panicked, wgDone>>
      [] c = "pingTimer" ->
           /\ timerC' = FALSE
           /\ pings' = pings + 1
           /\ IF lock # NoProc
              THEN /\ loopPc' = "pingTimeout_lock"
                   /\ UNCHANGED <<conds, panicked, timerArmed>>
              ELSE pingTimeout
           /\ UNCHANGED <<pc, ret, arg, loopN, Notify, newPingIntervalChannel, pingInterval>>
           /\ UNCHANGED <<arrived, wgDone>>
      [] c = "newPingInterval" ->
           /\ pingInterval' = Head(newPingIntervalChannel)
           /\ newPingIntervalChannel' = Tail(newPingIntervalChannel)
           /\ LoopTop(Head(newPingIntervalChannel))
           /\ UNCHANGED <<pc, ret, arg, loopN, Notify, timerC, pings>>
           /\ UNCHANGED <<conds, arrived, panicked, wgDone>>

\* The dispatcher goroutine, by position.  At "start" (line 276) the timer
\* is made due in one nanosecond and the first iteration stops it: it may
\* have fired by then.
mainDispatcherLoop ==
    /\ CASE loopPc = "start" ->
              /\ timerC' \in BOOLEAN
              /\ LoopTop(pingInterval)
              /\ UNCHANGED <<pc, ret, arg, loopN, Notify, pings, newPingIntervalChannel>>
              /\ UNCHANGED <<pingInterval, conds, arrived, panicked, wgDone>>
         [] loopPc = "select" ->
              \E c \in ReadyCases : SelectCase(c)
         [] loopPc = "notify_lock" ->
              /\ lock = NoProc
              /\ LoopNotify(loopN)
              /\ UNCHANGED <<pc, ret, arg, Notify, timerC, pings, newPingIntervalChannel>>
              /\ UNCHANGED <<pingInterval, wgDone>>
         [] loopPc = "pingTimeout_lock" ->
              /\ lock = NoProc
              /\ pingTimeout
              /\ UNCHANGED <<pc, ret, arg, loopN, Notify, timerC, pings, newPingIntervalChannel>>
              /\ UNCHANGED <<pingInterval, arrived, wgDone>>
         [] loopPc = "shutdown_lock" ->
              /\ lock = NoProc
              /\ shutdown
              /\ UNCHANGED <<pc, ret, arg, loopN, Notify, timerC, timerArmed, pings>>
              /\ UNCHANGED <<newPingIntervalChannel, pingInterval, arrived>>
         [] OTHER -> FALSE
    /\ UNCHANGED <<lock, closed, channels, broadcastOnPingTimeout, ch, err>>
    /\ UNCHANGED <<notifyClosed, listenerClosed, emitted, reads, handed, owner, lastSet, raced, calls>>

\* ------------------------------------------------ source and consumers
\* The source sends a notification for topic t on listener.Notify.
SourceEmit(t) ==
    /\ ~notifyClosed
    /\ Events < MaxEvents
    /\ LET n == Notification(t, Len(emitted) + 1)
       IN /\ Notify' = Append(Notify, n)
          /\ emitted' = Append(emitted, n)
    /\ UNCHANGED <<apiVars, conds, callVars, loopVars, notifyClosed, listenerClosed, pings>>
    /\ UNCHANGED <<panicked, reads, arrived, handed, owner, lastSet, raced, calls>>

\* The source sends the nil event (a resync after a reconnect).
SourceResync ==
    /\ ~notifyClosed
    /\ Events < MaxEvents
    /\ Notify' = Append(Notify, NilN)
    /\ emitted' = Append(emitted, NilN)
    /\ UNCHANGED <<apiVars, conds, callVars, loopVars, notifyClosed, listenerClosed, pings>>
    /\ UNCHANGED <<panicked, reads, arrived, handed, owner, lastSet, raced, calls>>

\* The source's event sequence ends: listener.Notify is closed.
SourceTerminate ==
    /\ ~notifyClosed
    /\ Events < MaxEvents
    /\ notifyClosed' = TRUE
    /\ emitted' = Append(emitted, EndOfNotify)
    /\ UNCHANGED <<apiVars, conds, callVars, loopVars, Notify, listenerClosed, pings>>
    /\ UNCHANGED <<panicked, reads, arrived, handed, owner, lastSet, raced, calls>>

\* The consumer holding condition channel c receives its pending value.
Receive(c) ==
    /\ c \in handed
    /\ conds[c].buf # <<>>
    /\ LET n == Head(conds[c].buf)
       IN reads' = IF n = NilN THEN reads
                   ELSE [reads EXCEPT ![c] = Append(@, n)]
    /\ conds' = [conds EXCEPT ![c].buf = Tail(@)]
    /\ arrived' = arrived \ {c}
    /\ UNCHANGED <<apiVars, callVars, loopVars, srcVars, panicked, emitted, handed, owner, lastSet, raced, calls>>

\* ------------------------------------------------------------------ Next
\* Callers keep the contract of the package documentation (lines 10-12):
\* no call on a notification channel begins while another call on the same
\* notification channel is in progress.
\* A panic aborts the program.
Running == panicked = ""

Next ==
    \/ \E p \in Procs, t \in Topics :
         Running /\ (pc[p] = "idle" => ~InCallOn(t)) /\ ListenCall(p, t)
    \/ \E p \in Procs : Running /\ ListenReturn(p)
    \/ \E p \in Procs, t \in Topics :
         Running /\ (pc[p] = "idle" => ~InCallOn(t)) /\ UnlistenCall(p, t)
    \/ \E p \in Procs : Running /\ UnlistenReturn(p)
    \/ \E p \in Procs : Running /\ UnlistenClose(p)
    \/ \E p \in Procs : Running /\ Close(p)
    \/ \E p \in Procs, d \in Durations : Running /\ SetPingInterval(p, d)
    \/ \E p \in Procs, b \in BOOLEAN : Running /\ SetBroadcastOnPingTimeout(p, b)
    \/ Running /\ mainDispatcherLoop
    \/ Running /\ TimerFire
    \/ \E t \in Topics : Running /\ SourceEmit(t)
    \/ Running /\ SourceResync
    \/ Running /\ SourceTerminate
    \/ \E c \in 1..Len(conds) : Running /\ Receive(c)

Spec == Init /\ [][Next]_vars

\* Callers that break the contract: a Listen or Unlisten call may begin
\* while another call on the same notification channel is in progress.
RacyNext ==
    \/ \E p \in Procs, t \in Topics : Running /\ ListenCall(p, t)
    \/ \E p \in Procs : Running /\ ListenReturn(p)
    \/ \E p \in Procs, t \in Topics : Running /\ UnlistenCall(p, t)
    \/ \E p \in Procs : Running /\ UnlistenReturn(p)
    \/ \E p \in Procs : Running /\ UnlistenClose(p)
    \/ \E p \in Procs : Running /\ Close(p)
    \/ \E p \in Procs, d \in Durations : Running /\ SetPingInterval(p, d)
    \/ \E p \in Procs, b \in BOOLEAN : Running /\ SetBroadcastOnPingTimeout(p, b)
    \/ Running /\ mainDispatcherLoop
    \/ Running /\ TimerFire
    \/ \E t \in Topics : Running /\ SourceEmit(t)
    \/ Running /\ SourceResync
    \/ Running /\ SourceTerminate
    \/ \E c \in 1..Len(conds) : Running /\ Receive(c)

RacySpec == Init /\ [][RacyNext]_vars

\* The positions at which a call waits for the listener's answer.
SrcPcs == {"Listen_src", "Unlisten_src"}

\* A step of the call caller p has begun that is not the listener's answer.
CallStep(p) ==
    /\ pc[p] \notin {"idle"} \cup SrcPcs
    /\ \/ \E t \in Topics : ListenCall(p, t)
       \/ ListenReturn(p)
       \/ \E t \in Topics : UnlistenCall(p, t)
       \/ UnlistenReturn(p)
       \/ UnlistenClose(p)
       \/ Close(p)
       \/ \E d \in Durations : SetPingInterval(p, d)
       \/ \E b \in BOOLEAN : SetBroadcastOnPingTimeout(p, b)

\* The Go scheduler runs every goroutine that can take a step: the loop,
\* and a call that has begun.  Callers need not call, the source need not
\* answer or emit, consumers need not receive.
Fairness ==
    /\ WF_vars(Running /\ mainDispatcherLoop)
    /\ \A p \in Procs : WF_vars(Running /\ CallStep(p))

FairSpec == Spec /\ Fairness

\* The loop receives a value from s.newPingIntervalChannel (line 302).
ConsumeInterval ==
    /\ Running
    /\ mainDispatcherLoop
    /\ loopPc = "select"
    /\ newPingIntervalChannel' # newPingIntervalChannel

\* The select of line 285 chooses among the cases that can proceed by a
\* uniform pseudo-random selection: a case that can proceed again and again
\* is taken in the end.
SelectFairSpec == FairSpec /\ SF_vars(ConsumeInterval)

\* ---------------------------------------------------------------- claims
\* The condition channels in the topic map.
MappedChans == {channels[t] : t \in DOMAIN channels}

\* C1: every Close() call that has begun eventually returns, whatever the
\* loop is doing and whether or not consumers drain their channels.
C1_CloseReturns ==
    \A p \in Procs : (pc[p] \in ClosePcs) ~> (pc[p] = "idle")

\* A Close() that has set the closed flag and waits at line 230 to send on
\* closeChannel, holding s.lock.
C1_Blocked ==
    \E p \in Procs : pc[p] = "Close_send" /\ lock = p /\ closed

Chans == 1..Len(conds)

\* C3: presence.  A mapped condition channel for which the loop has
\* processed a notification since the last receive on it (or since it was
\* registered) holds a pending value.
C3_Presence ==
    \A t \in DOMAIN channels :
        channels[t] \in arrived => conds[channels[t]].buf # <<>>

\* A consumer has received one notification from a mapped channel, the loop
\* has processed a later one for the topic, and it is pending.
C3_Witness ==
    \E c \in MappedChans \cap arrived :
        /\ Len(reads[c]) = 1
        /\ conds[c].buf # <<>>
        /\ Head(conds[c].buf).Extra > reads[c][1].Extra

\* C4: coalescing.  A condition channel never holds more than one pending
\* value, and a pending value stays as it is until a consumer receives it:
\* a notification or nil event processed meanwhile is dropped.
C4_Coalescing ==
    /\ [](\A c \in Chans : Len(conds[c].buf) <= 1)
    /\ [][\A c \in Chans :
            conds[c].buf # <<>> =>
                \/ conds'[c].buf = conds[c].buf
                \/ conds'[c].buf = <<>> /\ arrived' = arrived \ {c}]_vars

\* The loop has processed two notifications for a topic with no receive in
\* between: the first is pending, the second is gone.
C4_Witness ==
    \E c \in MappedChans :
        /\ emitted = <<Notification(owner[c], 1), Notification(owner[c], 2)>>
        /\ Notify = <<>>
        /\ loopPc = "select"
        /\ reads[c] = <<>>
        /\ conds[c].buf = <<Notification(owner[c], 1)>>

\* s is a subsequence of t.
RECURSIVE IsSubseq(_, _)
IsSubseq(s, t) ==
    IF s = <<>> THEN TRUE
    ELSE IF t = <<>> THEN FALSE
    ELSE IF Head(s) = Head(t) THEN IsSubseq(Tail(s), Tail(t))
    ELSE IsSubseq(s, Tail(t))

\* The notifications the source has emitted for topic t, in order.
EmittedFor(t) == SelectSeq(emitted, LAMBDA n : n.Channel = t)

\* C5: per-topic order.  The notifications received from a condition
\* channel are a subsequence of those the source emitted for its topic.
C5_PerTopicOrder ==
    \A c \in Chans : IsSubseq(reads[c], EmittedFor(owner[c]))

\* A consumer has received two notifications from one condition channel.
C5_Witness ==
    \E c \in Chans : Len(reads[c]) = 2

\* The loop, waiting in the select with s.lock free, takes a nil event
\* from listener.Notify in this step.
ResyncStep ==
    /\ Running
    /\ mainDispatcherLoop
    /\ loopPc = "select"
    /\ lock = NoProc
    /\ Notify # <<>> \/ notifyClosed
    /\ NotifyRecv = NilN
    /\ Notify' = (IF Notify # <<>> THEN Tail(Notify) ELSE Notify)
    /\ pings' = pings
    /\ newPingIntervalChannel' = newPingIntervalChannel

\* C6: when the loop processes a nil event, every mapped channel that was
\* empty holds a pending nil, a mapped channel with a pending value keeps
\* it, an unmapped channel is left as it is; and a channel registered later
\* is new and starts empty.
C6_Resync ==
    [][/\ ResyncStep =>
            \A c \in Chans :
                IF c \in MappedChans
                THEN conds'[c].buf = (IF conds[c].buf = <<>> THEN <<NilN>>
                                      ELSE conds[c].buf)
                ELSE conds'[c] = conds[c]
       /\ \A t \in Topics :
            ~Mapped(t) /\ t \in DOMAIN channels' =>
                /\ channels'[t] \notin Chans
                /\ conds'[channels'[t]] = NewCond]_vars

\* A nil event from the source has been processed with two topics mapped:
\* both channels hold a pending nil.
C6_Witness ==
    /\ \E c1, c2 \in MappedChans :
         /\ c1 # c2
         /\ conds[c1].buf = <<NilN>>
         /\ conds[c2].buf = <<NilN>>
    /\ pings = 0
    /\ Notify = <<>>

\* C7: Listen(t) while t is in the topic map returns ErrChannelAlreadyOpen
\* without a round trip to the listener and leaves the map and every
\* condition channel, pending values included, as they are.
C7_AlreadyRegistered ==
    [][\A p \in Procs, t \in Topics :
         ListenCall(p, t) /\ lock = NoProc /\ Mapped(t) =>
            /\ ret'[p] = ErrChannelAlreadyOpen
            /\ pc'[p] = "idle"
            /\ channels' = channels
            /\ conds' = conds]_vars

\* A Listen was refused for an active channel that holds a pending value.
C7_Witness ==
    \E p \in Procs, c \in MappedChans \cap handed :
        /\ ret[p] = ErrChannelAlreadyOpen
        /\ conds[c].buf # <<>>

\* Every condition channel returned for topic t has been closed, and there
\* is one: t was registered and has been deregistered.
TornDown(t) ==
    /\ \E c \in handed : owner[c] = t
    /\ \A c \in handed : owner[c] = t => conds[c].closed

\* What C8 states of the entry of Listen(t) for a torn down topic, with no
\* other call on t in progress: the call is not refused; it maps a new
\* channel and goes on to the listener.
C8_Entry(p, t) ==
    /\ ListenCall(p, t)
    /\ pc[p] = "idle"
    /\ lock = NoProc
    /\ TornDown(t)
    /\ ~InCallOn(t)
    =>
        /\ pc'[p] = "Listen_src"
        /\ channels'[t] \notin Chans
        /\ conds'[channels'[t]] = NewCond

\* Listen(t) returns a channel to caller p in this step.
ListenSucceeds(p) ==
    ListenReturn(p) /\ pc[p] = "Listen_src" /\ ret'[p] = ok

\* At most one open condition channel has been returned for a topic.
OneLiveChannel ==
    \A c1, c2 \in handed :
        c1 # c2 /\ owner[c1] = owner[c2] => conds[c1].closed \/ conds[c2].closed

\* C8 as claimed: after Listen(t) and Unlisten(t) have succeeded, a further
\* Listen(t) is not refused and returns a new, open and empty channel; the
\* map never holds more than one channel for t.
C8_ReturnsEmptyChannel ==
    /\ []OneLiveChannel
    /\ [][\A p \in Procs :
            /\ \A t \in Topics : C8_Entry(p, t)
            /\ ListenSucceeds(p) /\ TornDown(arg[p]) =>
                 /\ ch[p] \notin handed
                 /\ handed' = handed \cup {ch[p]}
                 /\ channels'[arg[p]] = ch[p]
                 /\ ~conds'[ch[p]].closed
                 /\ conds'[ch[p]].buf = <<>>]_vars

\* C8 as amended: the channel is empty when Listen maps it, not when Listen
\* returns it.
C8_ReturnsNewChannel ==
    /\ []OneLiveChannel
    /\ [][\A p \in Procs :
            /\ \A t \in Topics : C8_Entry(p, t)
            /\ ListenSucceeds(p) /\ TornDown(arg[p]) =>
                 /\ ch[p] \notin handed
                 /\ handed' = handed \cup {ch[p]}
                 /\ channels'[arg[p]] = ch[p]
                 /\ ~conds'[ch[p]].closed]_vars

\* A topic has been registered, deregistered and registered again: two
\* channels were returned for it, the first closed, the second open and
\* mapped.
C8_Witness ==
    \E c1, c2 \in handed :
        /\ c1 < c2
        /\ owner[c1] = owner[c2]
        /\ conds[c1].closed
        /\ ~conds[c2].closed
        /\ Mapped(owner[c2])
        /\ channels[owner[c2]] = c2

\* s.listener.Listen fails for caller p in this step, with s.lock free.
ListenFails(p) ==
    ListenReturn(p) /\ pc[p] = "Listen_src" /\ lock = NoProc /\ ret'[p] # ok

\* C9: when s.listener.Listen fails, Listen returns that error and no
\* channel, and the topic has no entry in the map any more (the entries of
\* the other topics are as they were), so that the next Listen is not
\* refused as already open.
C9_RegisterRollback ==
    [][\A p \in Procs :
         ListenFails(p) =>
            /\ ret'[p] = srcErr
            /\ pc'[p] = "idle"
            /\ handed' = handed
            /\ ch[p] \notin handed
            /\ channels' = MapDelete(channels, arg[p])
            /\ panicked' = ""]_vars

\* A Listen has failed at the listener: its channel was made, never
\* returned, and is not in the map.
C9_Witness ==
    \E p \in Procs, c \in Chans :
        /\ ret[p] = srcErr
        /\ c \notin handed
        /\ c \notin MappedChans
        /\ ~Mapped(owner[c])
        /\ \A q \in Procs : pc[q] = "idle"

\* s.listener.Unlisten fails for caller p in this step.
UnlistenFails(p) ==
    UnlistenReturn(p) /\ pc[p] = "Unlisten_src" /\ ret'[p] # ok /\ pc'[p] = "idle"

\* The loop, waiting in the select with s.lock free, takes a notification
\* for topic t from listener.Notify in this step.
NotifyStep(t) ==
    /\ Running
    /\ mainDispatcherLoop
    /\ loopPc = "select"
    /\ lock = NoProc
    /\ Notify # <<>>
    /\ Head(Notify).Channel = t
    /\ Notify' = Tail(Notify)
    /\ pings' = pings
    /\ newPingIntervalChannel' = newPingIntervalChannel

\* C10: when s.listener.Unlisten fails, Unlisten returns that error, the
\* topic stays mapped to its channel, which stays open and keeps its
\* pending value; and a notification for a mapped topic whose channel is
\* empty is queued in that channel.
C10_DeregisterFailure ==
    [][/\ \A p \in Procs :
            UnlistenFails(p) =>
                /\ ret'[p] = srcErr
                /\ channels' = channels
                /\ conds' = conds
                /\ Mapped(arg[p])
                /\ channels[arg[p]] = ch[p]
                /\ ~conds[ch[p]].closed
       /\ \A t \in DOMAIN channels :
            NotifyStep(t) /\ conds[channels[t]].buf = <<>> =>
                conds'[channels[t]].buf = <<Head(Notify)>>]_vars

\* An Unlisten has failed at the listener (every channel made was returned,
\* so no Listen failed), the channel is still mapped, open and empty, and
\* the loop is about to take a notification for its topic.
C10_Witness ==
    \E p \in Procs, t \in DOMAIN channels :
        /\ ret[p] = srcErr
        /\ Chans = handed
        /\ ~conds[channels[t]].closed
        /\ conds[channels[t]].buf = <<>>
        /\ Notify # <<>>
        /\ Head(Notify).Channel = t
        /\ loopPc = "select"
        /\ lock = NoProc

\* C11: a successful Unlisten(t) closes the condition channel of t, which
\* was open, after the mapping of t is gone, and returns nil; no channel is
\* closed twice; a closed channel stays closed, so that a read on it never
\* blocks, and gets no further value; and a notification for t processed
\* while t is not in the map is queued in no channel.
C11_DeregisterCloses ==
    /\ [](panicked # "close of closed channel")
    /\ [][\A p \in Procs :
            UnlistenClose(p) =>
                /\ ~Mapped(arg[p])
                /\ ~conds[ch[p]].closed
                /\ conds' = CloseCond(conds, ch[p])
                /\ ret'[p] = ok]_vars
    /\ [][\A c \in Chans :
            conds[c].closed =>
                /\ conds'[c].closed
                /\ Len(conds'[c].buf) <= Len(conds[c].buf)]_vars
    /\ [][\A t \in Topics :
            NotifyStep(t) /\ ~Mapped(t) => conds' = conds]_vars

\* Unlisten has returned nil for a topic whose channel is closed and out of
\* the map, and the loop is about to take a later notification for it.
C11_Witness ==
    \E p \in Procs, c \in handed :
        /\ pc[p] = "idle"
        /\ ret[p] = ok
        /\ conds[c].closed
        /\ ~Mapped(owner[c])
        /\ loopPc = "select"
        /\ lock = NoProc
        /\ Notify # <<>>
        /\ Head(Notify).Channel = owner[c]
        /\ Head(Notify).Extra > 1

\* C12: Unlisten(t) on an open dispatcher while t is not in the topic map
\* returns ErrChannelNotOpen without a round trip to the listener and
\* leaves the map, every condition channel and the closed flag as they are.
C12_NotRegistered ==
    [][\A p \in Procs, t \in Topics :
         UnlistenCall(p, t) /\ lock = NoProc /\ ~closed /\ ~Mapped(t) =>
            /\ ret'[p] = ErrChannelNotOpen
            /\ pc'[p] = "idle"
            /\ channels' = channels
            /\ conds' = conds
            /\ closed' = closed]_vars

\* An Unlisten was refused for a channel that is not active while another
\* channel is active and holds a pending value.
C12_Witness ==
    \E p \in Procs, c \in MappedChans \cap handed :
        /\ ret[p] = ErrChannelNotOpen
        /\ ~closed
        /\ conds[c].buf # <<>>

\* The positions at which a Listen, Unlisten or Close call waits for s.lock
\* at its entry.
EntryLockPcs == {"Listen_lock", "Unlisten_lock", "Close_lock"}

\* C13: a Listen, Unlisten or Close call that begins after a Close has set
\* the closed flag returns errClosed; it does not change the topic map, does
\* not go to the listener, does not signal the loop and does not close the
\* listener.
C13_ClosedError ==
    /\ [][\A p \in Procs :
            closed /\ pc[p] \in EntryLockPcs /\ pc'[p] # pc[p] =>
                /\ pc'[p] = "idle"
                /\ ret'[p] = errClosed
                /\ channels' = channels
                /\ listenerClosed' = listenerClosed]_vars
    /\ \A p \in Procs :
         (closed /\ pc[p] \in EntryLockPcs) ~> (pc[p] = "idle" /\ ret[p] = errClosed)

\* A Close has set the closed flag and a Listen that began afterwards waits
\* for s.lock.
C13_Blocked ==
    \E p, q \in Procs :
        /\ closed
        /\ pc[p] = "Close_send"
        /\ lock = p
        /\ pc[q] = "Listen_lock"

\* The loop, waiting in the select with s.lock free and no Close requested,
\* receives from listener.Notify after the listener has closed it and its
\* queued events are gone.
TerminationStep ==
    /\ Running
    /\ mainDispatcherLoop
    /\ loopPc = "select"
    /\ lock = NoProc
    /\ ~closed
    /\ notifyClosed
    /\ Notify = <<>>
    /\ pings' = pings
    /\ newPingIntervalChannel' = newPingIntervalChannel

\* C14: when listener.Notify is closed and no Close was requested, the
\* loop closes every condition channel in the topic map and exits.
C14_TerminationCloses ==
    [][TerminationStep =>
         /\ loopPc' = "exited"
         /\ \A c \in MappedChans : conds'[c].closed]_vars

\* listener.Notify was closed without any nil event sent on it, and the
\* loop, still in its select, has put a nil in an open mapped channel.
C14_Resynced ==
    \E c \in MappedChans :
        /\ notifyClosed
        /\ \A i \in 1..Len(emitted) : emitted[i] # NilN
        /\ pings = 0
        /\ loopPc = "select"
        /\ ~conds[c].closed
        /\ conds[c].buf = <<NilN>>

\* C15: a round trip to the listener that is pending (Listen or Unlisten of
\* caller p at line 142 or 176) is made without s.lock, and a keepalive
\* probe is not waited for.  While it is pending and s.lock is free, the
\* loop can take a queued event, a notification for another mapped topic is
\* queued in that topic's empty channel, a Listen for another topic that
\* is not in the map goes on to the listener, and when such a Listen
\* returns a channel both topics are in the map with distinct channels.
C15_RoundTripNoStall ==
    /\ [](\A p \in Procs : pc[p] \in SrcPcs => lock # p)
    /\ [](\A p \in Procs :
            /\ Running
            /\ pc[p] \in SrcPcs
            /\ lock = NoProc
            /\ loopPc = "select"
            /\ Notify # <<>>
            => ENABLED (Running /\ mainDispatcherLoop))
    /\ [][\A p \in Procs, t \in Topics :
            pc[p] \in SrcPcs /\ t # arg[p] =>
              /\ NotifyStep(t) /\ Mapped(t) /\ conds[channels[t]].buf = <<>> =>
                    conds'[channels[t]].buf = <<Head(Notify)>>
              /\ \A q \in Procs \ {p} :
                    /\ ListenCall(q, t)
                    /\ pc[q] = "idle"
                    /\ lock = NoProc
                    /\ ~Mapped(t)
                    /\ pc'[q] # "idle"
                    => pc'[q] = "Listen_src" /\ pc'[p] = pc[p]]_vars
    /\ [][\A p \in Procs, q \in Procs :
            q # p /\ pc[p] \in SrcPcs /\ ListenSucceeds(q) =>
              /\ arg[p] \in DOMAIN channels'
              /\ arg[q] \in DOMAIN channels'
              /\ channels'[arg[p]] = ch[p]
              /\ channels'[arg[q]] = ch[q]
              /\ ch[p] # ch[q]
              /\ pc'[p] = pc[p]]_vars
    /\ [][Running /\ mainDispatcherLoop /\ loopPc = "select" /\ lock = NoProc
            /\ pings' = pings + 1 => loopPc' = "select"]_vars

\* While the Listen of one topic waits for the listener, a Listen of
\* another topic has returned its channel and the loop has queued a
\* notification in it.
C15_Witness ==
    \E p \in Procs, q \in Procs, c \in handed :
        /\ pc[p] = "Listen_src"
        /\ pc[q] = "idle"
        /\ ret[q] = ok
        /\ Mapped(arg[p])
        /\ Mapped(owner[c])
        /\ owner[c] # arg[p]
        /\ channels[owner[c]] = c
        /\ channels[arg[p]] # c
        /\ conds[c].buf # <<>>
        /\ Head(conds[c].buf) # NilN

\* The loop, waiting in the select with s.lock free, takes the value the
\* fired timer left in pingTimer.C in this step.
PingStep ==
    /\ Running
    /\ mainDispatcherLoop
    /\ loopPc = "select"
    /\ lock = NoProc
    /\ timerC
    /\ ~timerC'

\* C16: for each timer fire it takes, the loop issues exactly one probe
\* (and probes are issued on timer fires only); when it runs pingTimeout's
\* critical section it is back in its select without waiting for the
\* probe, having put a nil in every empty channel of the topic map if
\* broadcastOnPingTimeout is set (a pending value stays), and having changed
\* no condition channel if it is unset.
C16_TimerFire ==
    /\ [][PingStep =>
            /\ pings' = pings + 1
            /\ loopPc' = "select"
            /\ \A c \in Chans :
                 IF broadcastOnPingTimeout /\ c \in MappedChans
                 THEN conds'[c].buf = (IF conds[c].buf = <<>> THEN <<NilN>>
                                       ELSE conds[c].buf)
                 ELSE conds'[c] = conds[c]]_vars
    /\ [][pings' # pings \/ (timerC /\ ~timerC') =>
            timerC /\ ~timerC' /\ pings' = pings + 1]_vars

\* With broadcastOnPingTimeout set, a timer fire has put a nil in a mapped
\* channel: the source has sent no nil event and has not closed Notify.
C16_Witness ==
    \E c \in MappedChans :
        /\ broadcastOnPingTimeout
        /\ pings = 1
        /\ ~notifyClosed
        /\ \A i \in 1..Len(emitted) : emitted[i] # NilN
        /\ conds[c].buf = <<NilN>>

\* The loop takes the pending request out of newPingIntervalChannel in
\* this step.
ConsumeStep ==
    /\ Running
    /\ mainDispatcherLoop
    /\ loopPc = "select"
    /\ newPingIntervalChannel # <<>>
    /\ newPingIntervalChannel' = <<>>

\* The SetPingInterval calls that have begun and wait to send.
Senders == {p \in Procs : pc[p] = "SetPingInterval_send"}

\* C17 as claimed: the last writer wins.  When the loop consumes the
\* pending request, the interval it goes on with is the value of the most
\* recent call: of a call that began while the request was pending, if
\* there is one, else of the call that left the request.
C17_LastWriterWins ==
    [][ConsumeStep =>
         IF Senders # {}
         THEN \E p \in Senders : pingInterval' = arg[p]
         ELSE pingInterval' = lastSet]_vars

\* C17 as amended: requests are taken in the order their sends complete.
\* newPingIntervalChannel holds at most one request, that of the last call
\* that returned; a call that begins while a request is pending waits and
\* the pending request is not replaced; the loop takes the pending request
\* as its interval and re-arms the timer with it at the top of its next
\* iteration; so whenever no request is pending the loop's interval is the
\* value of the last call that returned.
C17_IntervalInOrder ==
    /\ [](Len(newPingIntervalChannel) <= PingIntervalChanCap)
    /\ [](newPingIntervalChannel # <<>> => Head(newPingIntervalChannel) = lastSet)
    /\ [](newPingIntervalChannel = <<>> => pingInterval = lastSet)
    /\ [][newPingIntervalChannel # <<>> =>
            /\ newPingIntervalChannel' \in {newPingIntervalChannel, <<>>}
            /\ \A p \in Senders : pc'[p] = pc[p]]_vars
    /\ [][ConsumeStep =>
            /\ pingInterval' = Head(newPingIntervalChannel)
            /\ timerArmed'
            /\ loopPc' = "select"]_vars

\* The loop has taken the request of a first call and armed the timer, and
\* the request of a later call with another value is pending.
C17_Witness ==
    /\ pingInterval # NoInterval
    /\ timerArmed
    /\ newPingIntervalChannel # <<>>
    /\ Head(newPingIntervalChannel) # pingInterval
    /\ lastSet = Head(newPingIntervalChannel)

\* C18: an Unlisten that began on an open dispatcher and runs together
\* with a Close closes its condition channel exactly once: no close of a
\* closed channel happens, and once the listener has confirmed the Unlisten
\* the call goes on to remove the mapping, close the channel and return nil.
C18_ClosedOnce ==
    /\ [](panicked # "close of closed channel")
    /\ \A p \in Procs :
         (closed /\ pc[p] = "Unlisten_remove") ~> (pc[p] = "idle" /\ ret[p] = ok)

\* The listener has confirmed an Unlisten that began before a Close; the
\* Close holds s.lock at line 230, the Unlisten waits for it in
\* removeChannel, and its condition channel is mapped and open.
C18_Blocked ==
    \E p, q \in Procs :
        /\ pc[p] = "Unlisten_remove"
        /\ pc[q] = "Close_send"
        /\ lock = q
        /\ Mapped(arg[p])
        /\ channels[arg[p]] = ch[p]
        /\ ~conds[ch[p]].closed

\* C19: a notification the loop processes while its topic is not in the
\* map changes no condition channel; one processed while its topic is
\* mapped to an empty channel is queued there; and a notification enters a
\* condition channel only in the step in which the loop takes it from
\* listener.Notify, into the channel its topic is mapped to at that step,
\* so that none is delivered to a channel registered later.
C19_UnmappedIgnored ==
    /\ [][\A t \in Topics :
            NotifyStep(t) =>
                IF Mapped(t)
                THEN conds[channels[t]].buf = <<>> =>
                        conds'[channels[t]].buf = <<Head(Notify)>>
                ELSE conds' = conds]_vars
    /\ [][\A c \in Chans :
            /\ conds'[c].buf # <<>>
            /\ conds'[c].buf # conds[c].buf
            /\ Head(conds'[c].buf) # NilN
            => /\ Notify # <<>>
               /\ Head(conds'[c].buf) = Head(Notify)
               /\ NotifyStep(Head(Notify).Channel)
               /\ Mapped(Head(Notify).Channel)
               /\ channels[Head(Notify).Channel] = c]_vars

\* The first notification for a topic was processed before any channel
\* was made (it is nowhere), the second while the topic was mapped: it is
\* pending in the topic's channel, the only one ever made.
C19_Witness ==
    \E t \in Topics :
        /\ emitted = <<Notification(t, 1), Notification(t, 2)>>
        /\ Notify = <<>>
        /\ loopPc = "select"
        /\ Len(conds) = 1
        /\ Mapped(t)
        /\ reads[1] = <<>>
        /\ conds[1].buf = <<Notification(t, 2)>>

\* C20: the loop never sends on a closed condition channel: as long as
\* the loop has not exited, every channel in the topic map is open, and no
\* send on a closed channel happens.
C20_NoSendOnClosed ==
    /\ panicked # "send on closed channel"
    /\ loopPc # "exited" => \A c \in MappedChans : ~conds[c].closed

\* An Unlisten has removed the mapping and is about to close the channel,
\* which holds a pending value, while the loop is about to take a
\* notification for the same topic.
C20_Witness ==
    \E p \in Procs :
        /\ pc[p] = "Unlisten_close"
        /\ ~Mapped(arg[p])
        /\ ~conds[ch[p]].closed
        /\ conds[ch[p]].buf # <<>>
        /\ loopPc = "select"
        /\ Notify # <<>>
        /\ Head(Notify).Channel = arg[p]

\* The panics of removeChannel, lines 105-110.
RemovePanics == {"channel not part of NotifyCond.channels", "unexpected channel"}

\* C21 as stated: removeChannel panics only after a Listen call and an
\* Unlisten call have been in progress at once on one topic.
C21_OnlyListenUnlistenRace ==
    panicked \in RemovePanics => "LU" \in raced

\* C21: removeChannel panics only after two calls, one of them an Unlisten,
\* have been in progress at once on one topic; as long as the calls on each
\* topic are made one after the other nothing panics, whatever the calls on
\* other topics, the loop and Close do.
C21_OnlyUnlistenRace ==
    /\ panicked \in RemovePanics => raced \cap {"LU", "UU"} # {}
    /\ raced = {} => panicked = ""

\* removeChannel has panicked after a Listen and an Unlisten overlapped.
C21_Witness ==
    /\ panicked \in RemovePanics
    /\ raced = {"LU"}

\* No SetPingInterval call has begun.
NeverSet ==
    /\ lastSet = NoInterval
    /\ \A p \in Procs : pc[p] # "SetPingInterval_send"

\* C22: as long as SetPingInterval has never been called the ping timer is
\* disarmed and the loop does not take the pingTimer.C case: no probe is
\* issued and pingTimeout does not run.
C22_NoFireBeforeSet ==
    NeverSet =>
        /\ pingInterval = NoInterval
        /\ ~timerArmed
        /\ pings = 0
        /\ loopPc # "pingTimeout_lock"

\* The loop has issued a probe although SetPingInterval was never called
\* and the timer is disarmed: the timer of line 276 had fired before the
\* Stop of line 282.
C22_SpuriousProbe ==
    /\ NeverSet
    /\ ~timerArmed
    /\ pings = 1

\* C23: every SetPingInterval call that has begun eventually returns,
\* whatever the state of the dispatcher and however many calls are made
\* (the loop's select being fair to its newPingIntervalChannel case).
C23_SetPingIntervalReturns ==
    \A p \in Procs : (pc[p] = "SetPingInterval_send") ~> (pc[p] = "idle")

\* A SetPingInterval call waits at line 195 with the buffer full while the
\* loop waits for s.lock, which a Close holds at line 230: nothing will
\* receive from newPingIntervalChannel.
C23_Blocked ==
    /\ \E p \in Procs : pc[p] = "SetPingInterval_send"
    /\ Len(newPingIntervalChannel) = PingIntervalChanCap
    /\ loopPc \in {"notify_lock", "pingTimeout_lock"}
    /\ \E q \in Procs : pc[q] = "Close_send" /\ lock = q
====
